---- MODULE Spec2Model ----
(***************************************************************************)
(* A model of the signed-request pipeline of TikTokAPI (src/src/index.ts): *)
(* construction, the endpoint methods' parameter merging, the signing      *)
(* interceptor (signRequest), the cookie jar shared by the requests of one *)
(* instance, and the response decoder (transformResponse).                 *)
(*                                                                         *)
(* A JavaScript object is modelled as the sequence of its <<key, value>>   *)
(* pairs in insertion order, keys distinct.  Each callback of the event    *)
(* loop runs to completion, so each such callback is one action.           *)
(***************************************************************************)
EXTENDS Integers, Sequences, FiniteSets, TLC

VARIABLES
    signURL,        \* typeof apiConfig.signURL as given to the constructor
    client,         \* "none" | "ready" | "threw": outcome of new TikTokAPI(...)
    jarCreated,     \* this.cookieJar has been created
    instCreated,    \* this.request (the axios instance) has been created
    serializerFn,   \* the instance's paramsSerializer is a function
    clock,          \* the wall clock, in milliseconds
    calls,          \* number of endpoint calls issued so far
    pc,             \* per request: its position in the pipeline
    args,           \* per request: the method called and the caller's params
    config,         \* per request: the AxiosRequestConfig travelling the chain
    frame,          \* per request: signRequest's locals ts, params, url
    signerArgs,     \* per request: the arguments signURL was called with
    signerCalls,    \* per request: how often signURL was called for it
    signerResult,   \* per request: what signURL resolved or rejected with
    sent,           \* per request: the config the transport received
    outcome,        \* per request: what the caller's promise settled with
    tsLog,          \* the injected ts values, in the order signing began
    cookieJar,      \* the instance's jar: <<host, name>> -> value, 0 if unset
    header,         \* per request in flight: the cookies attached to it
    resp,           \* per request: the Set-Cookie headers of its response
    pending,        \* per request: those of them not yet stored in the jar
    lastSet,        \* <<host, name>> -> the value a response set last, 0 if none
    owed,           \* per host: the cookies set since a request last went to it
    mapA, mapB,     \* two parameter mappings handed to the serializer
    outA, outB,     \* their serializations
    data,           \* a raw response body handed to transformResponse
    decoded         \* what transformResponse made of it

pipeVars == <<signURL, client, jarCreated, instCreated, serializerFn, clock, calls, pc,
              args, config, frame, signerArgs, signerCalls,
              signerResult, sent, outcome, tsLog, cookieJar, header, resp,
              pending, lastSet, owed>>
paramVars == <<mapA, mapB, outA, outB>>
decodeVars == <<data, decoded>>
vars == <<pipeVars, paramVars, decodeVars>>

None == "none"

(***************************************************************************)
(* JavaScript objects as insertion-ordered sequences of pairs.             *)
(***************************************************************************)
KeysOf(m) == {m[i][1] : i \in 1..Len(m)}

Has(m, k) == k \in KeysOf(m)

Get(m, k) == LET i == CHOOSE j \in 1..Len(m) : m[j][1] = k IN m[i][2]

\* obj[k] = v: an existing key keeps its position, a new key goes last.
Put(m, k, v) ==
    IF Has(m, k)
    THEN [i \in 1..Len(m) |-> IF m[i][1] = k THEN <<k, v>> ELSE m[i]]
    ELSE Append(m, <<k, v>>)

\* { ...a, ...b }
RECURSIVE Spread(_, _)
Spread(a, b) ==
    IF b = <<>> THEN a
    ELSE Spread(Put(a, Head(b)[1], Head(b)[2]), Tail(b))

SameContent(a, b) ==
    /\ KeysOf(a) = KeysOf(b)
    /\ \A k \in KeysOf(a) : Get(a, k) = Get(b, k)

(***************************************************************************)
(* ./params: paramsOrder, paramsSerializer, withDefaultListParams.         *)
(***************************************************************************)
\* The recognized keys, in the backend's canonical layout.
paramsOrder == <<"timezone_name", "device_id", "aid", "_rticket", "ts">>

InOrderList(order, k) == \E i \in 1..Len(order) : order[i] = k

\* Recognized keys first, in the order of the list; then the keys absent
\* from the list, in the order they appear in the input.
Order(order, params) ==
    LET known == SelectSeq(order, LAMBDA k : Has(params, k))
        recognized == [i \in 1..Len(known) |-> <<known[i], Get(params, known[i])>>]
        rest == SelectSeq(params, LAMBDA p : ~InOrderList(order, p[1]))
    IN recognized \o rest

\* Keys whose values are JavaScript numbers; the others hold strings.
NumberKeys == {"ts", "_rticket", "count", "cursor", "comment_style"}

\* Percent-encoding of a string value (of the values the model draws, only
\* those holding "/" or " " have a character that is escaped).
PercentEncode(v) ==
    CASE v = "Australia/Lord_Howe" -> "Australia%2FLord_Howe"
      [] v = "a b" -> "a%20b"
      [] OTHER -> v

EncodeValue(k, v) == IF k \in NumberKeys THEN ToString(v) ELSE PercentEncode(v)

\* key=value pairs joined with "&".
RECURSIVE Serialize(_)
Serialize(pairs) ==
    IF pairs = <<>> THEN ""
    ELSE LET p == Head(pairs)
             one == p[1] \o "=" \o EncodeValue(p[1], p[2])
         IN IF Len(pairs) = 1 THEN one ELSE one \o "&" \o Serialize(Tail(pairs))

paramsSerializer(order, params) == Serialize(Order(order, params))

DefaultListParams == <<<<"count", 20>>>>

\* Default list parameters, the caller's own values over them.
withDefaultListParams(params) == Spread(DefaultListParams, params)

(***************************************************************************)
(* The serializer applied to two mappings of the same content.             *)
(***************************************************************************)
MaxParams == 3

SampleKeys == {"aid", "ts", "user_id", "cursor"}

SampleValues(k) ==
    CASE k = "aid" -> {"1233", "a b"}
      [] k = "ts" -> {0, 1}
      [] k = "user_id" -> {"u1"}
      [] k = "cursor" -> {0}

RECURSIVE Mappings(_)
Mappings(n) ==
    IF n = 0 THEN {<<>>}
    ELSE LET prev == Mappings(n - 1)
         IN prev \cup
            UNION {UNION {{Append(m, <<k, v>>) : v \in SampleValues(k)} :
                          k \in SampleKeys \ KeysOf(m)} : m \in prev}

NoOutput == [done |-> FALSE, text |-> ""]

InitParams ==
    /\ mapA \in Mappings(MaxParams)
    /\ mapB \in {m \in Mappings(MaxParams) : SameContent(m, mapA)}
    /\ outA = NoOutput /\ outB = NoOutput

SerializeA ==
    /\ ~outA.done
    /\ outA' = [done |-> TRUE, text |-> paramsSerializer(paramsOrder, mapA)]
    /\ UNCHANGED <<mapA, mapB, outB>>
    /\ UNCHANGED <<pipeVars, decodeVars>>

SerializeB ==
    /\ ~outB.done
    /\ outB' = [done |-> TRUE, text |-> paramsSerializer(paramsOrder, mapB)]
    /\ UNCHANGED <<mapA, mapB, outA>>
    /\ UNCHANGED <<pipeVars, decodeVars>>


(***************************************************************************)
(* The response decoder.  A body is a sequence of JSON tokens; "NUM"       *)
(* stands for an integer literal, kept as its sign and decimal digits.     *)
(***************************************************************************)
MaxDigits == 17
MaxPairs == 1

RECURSIVE Rep(_, _)
Rep(d, n) == IF n = 0 THEN <<>> ELSE <<d>> \o Rep(d, n - 1)

Literals ==
    {[neg |-> s, digits |-> <<lead>> \o Rep(fill, n - 1)] :
        s \in BOOLEAN, lead \in {1, 9}, fill \in {0, 9}, n \in 1..MaxDigits}
    \cup {[neg |-> FALSE, digits |-> <<4, 2>>],
          [neg |-> FALSE, digits |-> <<1,2,3,4,5,6,7,8,9,0,1,2,3,4,5,6,7,8>>],
          [neg |-> FALSE, digits |-> <<9,0,0,7,1,9,9,2,5,4,7,4,0,9,9,1>>],
          [neg |-> FALSE, digits |-> <<9,0,0,7,1,9,9,2,5,4,7,4,0,9,9,2>>]}

\* The characters of the literal as written: its sign and its digits.
TextLength(lit) == Len(lit.digits) + (IF lit.neg THEN 1 ELSE 0)

MaxSafeDigits == <<9,0,0,7,1,9,9,2,5,4,7,4,0,9,9,1>>

RECURSIVE LexLeq(_, _)
LexLeq(a, b) ==
    IF a = <<>> THEN TRUE
    ELSE IF Head(a) # Head(b) THEN Head(a) < Head(b)
    ELSE LexLeq(Tail(a), Tail(b))

\* |lit| <= Number.MAX_SAFE_INTEGER
IsSafeInteger(lit) ==
    \/ Len(lit.digits) < Len(MaxSafeDigits)
    \/ /\ Len(lit.digits) = Len(MaxSafeDigits)
       /\ LexLeq(lit.digits, MaxSafeDigits)

\* A native number: it denotes the literal exactly when the literal is a
\* safe integer, and may be a rounded neighbour otherwise.
NativeNumber(lit) == [kind |-> "number", of |-> lit, exact |-> IsSafeInteger(lit)]

\* JSON.parse: every number becomes a native number.
BigNumberValueNative(lit) == NativeNumber(lit)

StringLengthLimit == 15

\* JSONBig({ storeAsString: true }): a number whose text is longer than 15
\* characters is returned as that text, any other as a native number.
BigNumberValue(lit) ==
    IF TextLength(lit) > StringLengthLimit
    THEN [kind |-> "string", literal |-> lit]
    ELSE NativeNumber(lit)

ParseFail == [ok |-> FALSE, next |-> 0, val |-> None]

RECURSIVE ParseValue(_, _, _)
RECURSIVE ParseMembers(_, _, _, _)
ParseMembers(toks, i, lit, acc) ==
    IF i + 2 > Len(toks) \/ toks[i] # "STR" \/ toks[i + 1] # ":" THEN ParseFail
    ELSE LET r == ParseValue(toks, i + 2, lit)
         IN IF ~r.ok \/ r.next > Len(toks) THEN ParseFail
            ELSE LET obj == Put(acc, "id", r.val)
                 IN IF toks[r.next] = "}"
                    THEN [ok |-> TRUE, next |-> r.next + 1,
                          val |-> [kind |-> "object", fields |-> obj]]
                    ELSE IF toks[r.next] = ","
                    THEN ParseMembers(toks, r.next + 1, lit, obj)
                    ELSE ParseFail

ParseValue(toks, i, lit) ==
    IF i > Len(toks) THEN ParseFail
    ELSE CASE toks[i] = "NUM" ->
                [ok |-> TRUE, next |-> i + 1, val |-> BigNumberValue(lit)]
           [] toks[i] = "STR" ->
                [ok |-> TRUE, next |-> i + 1,
                 val |-> [kind |-> "string", chars |-> "id"]]
           [] toks[i] = "{" ->
                IF i + 1 <= Len(toks) /\ toks[i + 1] = "}"
                THEN [ok |-> TRUE, next |-> i + 2,
                      val |-> [kind |-> "object", fields |-> <<>>]]
                ELSE ParseMembers(toks, i + 1, lit, <<>>)
           [] OTHER -> ParseFail

\* JSONBig.parse: one value, then the end of the text; anything else throws.
JSONBigParse(toks, lit) ==
    LET r == ParseValue(toks, 1, lit)
    IN IF r.ok /\ r.next = Len(toks) + 1
       THEN [kind |-> "value", parsed |-> TRUE, value |-> r.val]
       ELSE [kind |-> "error", parsed |-> TRUE, value |-> None]

\* A transformResponse without the guard for empty bodies.
transformResponseUnguarded(d) == JSONBigParse(d.toks, d.lit)

\* transformResponse = (data) => { if (!data || !data.length) return data; ... }
transformResponse(d) ==
    IF ~d.present \/ Len(d.toks) = 0
    THEN [kind |-> "returned", parsed |-> FALSE, value |-> d]
    ELSE JSONBigParse(d.toks, d.lit)

RECURSIVE Pairs(_)
Pairs(n) ==
    IF n = 1 THEN <<"STR", ":", "NUM">>
    ELSE Pairs(n - 1) \o <<",", "STR", ":", "NUM">>

Document(n) == <<"{">> \o Pairs(n) \o <<"}">>

RECURSIVE Pick(_, _, _)
Pick(doc, keep, i) ==
    IF i > Len(doc) THEN <<>>
    ELSE (IF i \in keep THEN <<doc[i]>> ELSE <<>>) \o Pick(doc, keep, i + 1)

\* Every body left when tokens of an n-pair document are deleted: the
\* document itself, its scalars, {}, truncations, and the empty body.
Bodies == {Pick(Document(MaxPairs), keep, 1) :
              keep \in SUBSET (1..Len(Document(MaxPairs)))}

NotDecoded == [kind |-> "pending", parsed |-> FALSE, value |-> None]

AnyLiteral == [neg |-> FALSE, digits |-> <<4, 2>>]

InitDecode ==
    /\ data \in {[present |-> FALSE, toks |-> <<>>, lit |-> AnyLiteral]}
         \cup {[present |-> TRUE, toks |-> b, lit |-> l] :
                 b \in Bodies, l \in Literals}
    /\ decoded = NotDecoded

Decode ==
    /\ decoded = NotDecoded
    /\ decoded' = transformResponse(data)
    /\ UNCHANGED data
    /\ UNCHANGED <<pipeVars, paramVars>>


(***************************************************************************)
(* The client: construction, endpoint methods, the signing interceptor,    *)
(* the cookie jar and the transport.                                       *)
(***************************************************************************)
NumReq == 2
MaxCalls == 3
MaxTicks == 2
MaxSetCookies == 2

Requests == 1..NumReq

MsPerSecond == 1000

BaseURL == "https://api2.musical.ly/"

Hosts == {"api2.musical.ly", "api.tiktokv.com"}

CookieNames == <<"session", "csrf">>

\* Some of the built-in device and app parameters.
BuiltinRequestParams ==
    <<<<"aid", "1233">>, <<"timezone_name", "Australia/Lord_Howe">>>>

\* ({ ...defaults, ...requestParams })
getRequestParams(requestParams) == Spread(BuiltinRequestParams, requestParams)

\* The reqParams the instance is constructed with.
reqParams == getRequestParams(<<<<"device_id", "6501">>>>)

Url(host, text, token) == [host |-> host, text |-> text, token |-> token]
NoUrl == Url("", "", 0)

NoArgs == [method |-> "", params |-> <<>>]
NoConfig == [url |-> NoUrl, params |-> <<>>]
NoFrame == [set |-> FALSE, ts |-> 0, params |-> <<>>, url |-> NoUrl]
NoSignerArgs == [url |-> NoUrl, ts |-> 0, device_id |-> ""]
NoResult == [kind |-> "none", url |-> NoUrl, error |-> ""]
NotSent == [dispatched |-> FALSE, url |-> NoUrl, params |-> <<>>]
NoOutcome == [kind |-> "pending", error |-> ""]

EmptyJar == [k \in Hosts \X {CookieNames[i] : i \in 1..Len(CookieNames)} |-> 0]

\* An instance created without `jar`: no cookie is ever attached.
AttachedCookiesWithoutJar(jar, host) == {}

\* What the cookie interceptor reads from the jar given as `jar` for a host.
AttachedCookies(jar, host) ==
    {<<k[2], jar[k]>> : k \in {x \in DOMAIN jar : x[1] = host /\ jar[x] # 0}}

\* A store that writes back the host's cookies from a stale, empty copy:
\* the other cookies of the host are lost.
JarPutLosingOthers(jar, host, name, value) ==
    [k \in DOMAIN jar |->
        IF k = <<host, name>> THEN value
        ELSE IF k[1] = host THEN 0 ELSE jar[k]]

\* jar.setCookie: the cookie replaces the one stored under the same key.
JarPut(jar, host, name, value) == [jar EXCEPT ![<<host, name>>] = value]

\* A constructor that looks for the signer only after it has built the jar
\* and the axios instance.
ConstructCheckingLate(signer, requestConfig) ==
    /\ client = "none"
    /\ signURL' = signer
    /\ jarCreated' = TRUE
    /\ cookieJar' = EmptyJar
    /\ instCreated' = TRUE
    /\ serializerFn' = (requestConfig # "paramsSerializer: undefined")
    /\ client' = IF signer # "function" THEN "threw" ELSE "ready"
    /\ UNCHANGED <<clock, calls, pc, args, config, frame, signerArgs,
                   signerCalls, signerResult, sent, outcome, tsLog, header,
                   resp, pending, lastSet, owed>>
    /\ UNCHANGED <<paramVars, decodeVars>>

\* new TikTokAPI(reqParams, { signURL }, requestConfig)
Construct(signer, requestConfig) ==
    /\ client = "none"
    /\ signURL' = signer
    /\ IF signer # "function"
       THEN /\ client' = "threw"
            /\ UNCHANGED <<jarCreated, instCreated, serializerFn, cookieJar>>
       ELSE /\ client' = "ready"
            /\ jarCreated' = TRUE
            /\ cookieJar' = EmptyJar
            /\ instCreated' = TRUE
            /\ serializerFn' = (requestConfig # "paramsSerializer: undefined")
    /\ UNCHANGED <<clock, calls, pc, args, config, frame, signerArgs,
                   signerCalls, signerResult, sent, outcome, tsLog, header,
                   resp, pending, lastSet, owed>>
    /\ UNCHANGED <<paramVars, decodeVars>>

\* this.request.get(path, { params }): the call's params over the
\* instance's default params; the interceptor chain is then scheduled.
\* The call takes the first free slot.
Request(r, method, callerParams, path, callParams) ==
    /\ client = "ready"
    /\ pc[r] = "idle"
    /\ \A q \in Requests : q < r => pc[q] # "idle"
    /\ calls < MaxCalls
    /\ calls' = calls + 1
    /\ args' = [args EXCEPT ![r] = [method |-> method, params |-> callerParams]]
    /\ config' = [config EXCEPT ![r] =
                    [url |-> Url("", path, 0), params |-> Spread(reqParams, callParams)]]
    /\ pc' = [pc EXCEPT ![r] = "unsigned"]
    /\ UNCHANGED <<signURL, client, jarCreated, instCreated, serializerFn, clock,
                   frame, signerArgs, signerCalls, signerResult, sent,
                   outcome, tsLog, cookieJar, header, resp, pending, lastSet,
                   owed>>
    /\ UNCHANGED <<paramVars, decodeVars>>

getUser(r, userId) ==
    Request(r, "getUser", <<<<"user_id", userId>>>>, "aweme/v1/user/",
            <<<<"user_id", userId>>>>)

ListCommentsDefaults ==
    <<<<"comment_style", 2>>, <<"digged_cid", "">>, <<"insert_cids", "">>>>

\* { ...params, comment_style: 2, ... }: the defaults would win.
ListCommentsParamsDefaultsLast(params) == Spread(params, ListCommentsDefaults)

\* { comment_style: 2, digged_cid: '', insert_cids: '', ...params }
ListCommentsParams(params) == Spread(ListCommentsDefaults, params)

listComments(r, params) ==
    Request(r, "listComments", params, "aweme/v1/comment/list/",
            withDefaultListParams(ListCommentsParams(params)))

\* { ts, _rticket, ...config.params }: the caller's ts would win.
FreshParamsUnderCaller(params, ts, rticket) ==
    Spread(<<<<"ts", ts>>, <<"_rticket", rticket>>>>, params)

\* { ...config.params, ts, _rticket }
FreshParams(params, ts, rticket) ==
    Spread(params, <<<<"ts", ts>>, <<"_rticket", rticket>>>>)

\* `${config.baseURL}${config.url}?${config.paramsSerializer(params)}`
CanonicalUrl(path, params) ==
    Url("api2.musical.ly",
        BaseURL \o path \o "?" \o paramsSerializer(paramsOrder, params), 0)

\* A signRequest that sets the URL and leaves the params in place.
SignedConfigKeepingParams(cfg, signedURL) == [cfg EXCEPT !.url = signedURL]

\* { ...config, url: signedURL, params: {} }
SignedConfig(cfg, signedURL) == [cfg EXCEPT !.url = signedURL, !.params = <<>>]

\* signRequest up to its await: `later` is the clock's second reading.
SignBegin(r, later) ==
    /\ pc[r] = "unsigned"
    /\ IF ~serializerFn
       THEN /\ later = clock
            /\ pc' = [pc EXCEPT ![r] = "failed"]
            /\ outcome' = [outcome EXCEPT ![r] =
                 [kind |-> "error",
                  error |-> "Missing required paramsSerializer function"]]
            /\ UNCHANGED <<clock, frame, signerArgs, signerCalls, tsLog>>
       ELSE LET ts == clock \div MsPerSecond
                params == FreshParams(config[r].params, ts, later)
                url == CanonicalUrl(config[r].url.text, params)
            IN /\ later \in {clock, clock + 500}
               /\ later <= MaxTicks * 500
               /\ clock' = later
               /\ frame' = [frame EXCEPT ![r] =
                    [set |-> TRUE, ts |-> ts, params |-> params, url |-> url]]
               /\ signerArgs' = [signerArgs EXCEPT ![r] =
                    [url |-> url, ts |-> ts,
                     device_id |-> Get(reqParams, "device_id")]]
               /\ signerCalls' = [signerCalls EXCEPT ![r] = @ + 1]
               /\ tsLog' = Append(tsLog, Get(params, "ts"))
               /\ pc' = [pc EXCEPT ![r] = "signing"]
               /\ UNCHANGED outcome
    /\ UNCHANGED <<signURL, client, jarCreated, instCreated, serializerFn, calls,
                   args, config, signerResult, sent, cookieJar,
                   header, resp, pending, lastSet, owed>>
    /\ UNCHANGED <<paramVars, decodeVars>>

\* The signer resolves with a signed URL: signRequest resumes and returns.
SignResolve(r, host) ==
    /\ pc[r] = "signing"
    /\ LET signedURL == Url(host, signerArgs[r].url.text, r)
       IN /\ signerResult' = [signerResult EXCEPT ![r] =
                [kind |-> "url", url |-> signedURL, error |-> ""]]
          /\ config' = [config EXCEPT ![r] = SignedConfig(config[r], signedURL)]
    /\ pc' = [pc EXCEPT ![r] = "signed"]
    /\ UNCHANGED <<signURL, client, jarCreated, instCreated, serializerFn, clock,
                   calls, args, frame, signerArgs, signerCalls, sent,
                   outcome, tsLog, cookieJar, header, resp, pending, lastSet,
                   owed>>
    /\ UNCHANGED <<paramVars, decodeVars>>

\* A signRequest that catches the signer's failure and lets the request go
\* on with the URL it has.
SignRejectFallingBack(r, e) ==
    /\ pc[r] = "signing"
    /\ signerResult' = [signerResult EXCEPT ![r] =
          [kind |-> "error", url |-> NoUrl, error |-> e]]
    /\ pc' = [pc EXCEPT ![r] = "signed"]
    /\ UNCHANGED <<signURL, client, jarCreated, instCreated, serializerFn, clock,
                   calls, args, config, frame, signerArgs, signerCalls, sent,
                   outcome, tsLog, cookieJar, header, resp, pending, lastSet,
                   owed>>
    /\ UNCHANGED <<paramVars, decodeVars>>

\* The signer rejects or throws: the await throws, signRequest's promise
\* rejects, and the rest of the chain is skipped.
SignReject(r, e) ==
    /\ pc[r] = "signing"
    /\ signerResult' = [signerResult EXCEPT ![r] =
          [kind |-> "error", url |-> NoUrl, error |-> e]]
    /\ outcome' = [outcome EXCEPT ![r] = [kind |-> "error", error |-> e]]
    /\ pc' = [pc EXCEPT ![r] = "failed"]
    /\ UNCHANGED <<signURL, client, jarCreated, instCreated, serializerFn, clock,
                   calls, args, config, frame, signerArgs,
                   signerCalls, sent, tsLog, cookieJar, header, resp,
                   pending, lastSet, owed>>
    /\ UNCHANGED <<paramVars, decodeVars>>

\* The cookie interceptor attaches the jar's cookies for the URL's host and
\* the request is handed to the transport.
Attach(r) ==
    /\ pc[r] = "signed"
    /\ LET cookies == AttachedCookies(cookieJar, config[r].url.host)
       IN /\ sent' = [sent EXCEPT ![r] =
                [dispatched |-> TRUE, url |-> config[r].url,
                 params |-> config[r].params]]
          /\ header' = [header EXCEPT ![r] = cookies]
          /\ owed' = [owed EXCEPT ![config[r].url.host] = {}]
    /\ pc' = [pc EXCEPT ![r] = "inflight"]
    /\ UNCHANGED <<signURL, client, jarCreated, instCreated, serializerFn, clock,
                   calls, args, config, frame, signerArgs,
                   signerCalls, signerResult, outcome, tsLog, cookieJar,
                   resp, pending, lastSet>>
    /\ UNCHANGED <<paramVars, decodeVars>>

\* A response arrives, carrying Set-Cookie headers.
Respond(r, cookies) ==
    /\ pc[r] = "inflight"
    /\ resp' = [resp EXCEPT ![r] = cookies]
    /\ header' = [header EXCEPT ![r] = {}]
    /\ pending' = [pending EXCEPT ![r] = cookies]
    /\ pc' = [pc EXCEPT ![r] = "received"]
    /\ UNCHANGED <<signURL, client, jarCreated, instCreated, serializerFn, clock,
                   calls, args, config, frame, signerArgs,
                   signerCalls, signerResult, sent, outcome, tsLog,
                   cookieJar, lastSet, owed>>
    /\ UNCHANGED <<paramVars, decodeVars>>

\* One Set-Cookie header of the response is stored in the jar.
StoreCookie(r) ==
    /\ pc[r] = "received"
    /\ pending[r] # <<>>
    /\ LET c == Head(pending[r])
           host == sent[r].url.host
       IN /\ cookieJar' = JarPut(cookieJar, host, c[1], c[2])
          /\ lastSet' = [lastSet EXCEPT ![<<host, c[1]>>] = c[2]]
          /\ owed' = [owed EXCEPT ![host] = @ \cup {c}]
    /\ pending' = [pending EXCEPT ![r] = Tail(pending[r])]
    /\ UNCHANGED <<signURL, client, jarCreated, instCreated, serializerFn, clock,
                   calls, pc, args, config, frame, signerArgs,
                   signerCalls, signerResult, sent, outcome, tsLog, header,
                   resp>>
    /\ UNCHANGED <<paramVars, decodeVars>>

\* All cookies stored: the caller's promise resolves with the response.
Settle(r) ==
    /\ pc[r] = "received"
    /\ pending[r] = <<>>
    /\ outcome' = [outcome EXCEPT ![r] = [kind |-> "response", error |-> ""]]
    /\ pc' = [pc EXCEPT ![r] = "done"]
    /\ UNCHANGED <<signURL, client, jarCreated, instCreated, serializerFn, clock,
                   calls, args, config, frame, signerArgs,
                   signerCalls, signerResult, sent, tsLog, cookieJar, header,
                   resp, pending, lastSet, owed>>
    /\ UNCHANGED <<paramVars, decodeVars>>

\* The caller is done with a settled request; the slot serves a later call.
Again(r) ==
    /\ pc[r] \in {"done", "failed"}
    /\ calls < MaxCalls
    /\ pc' = [pc EXCEPT ![r] = "idle"]
    /\ args' = [args EXCEPT ![r] = NoArgs]
    /\ config' = [config EXCEPT ![r] = NoConfig]
    /\ frame' = [frame EXCEPT ![r] = NoFrame]
    /\ signerArgs' = [signerArgs EXCEPT ![r] = NoSignerArgs]
    /\ signerCalls' = [signerCalls EXCEPT ![r] = 0]
    /\ signerResult' = [signerResult EXCEPT ![r] = NoResult]
    /\ sent' = [sent EXCEPT ![r] = NotSent]
    /\ outcome' = [outcome EXCEPT ![r] = NoOutcome]
    /\ resp' = [resp EXCEPT ![r] = <<>>]
    /\ UNCHANGED <<signURL, client, jarCreated, instCreated, serializerFn, clock,
                   calls, tsLog, cookieJar, header, pending, lastSet, owed>>
    /\ UNCHANGED <<paramVars, decodeVars>>

\* Time passes.
Tick ==
    /\ clock + 500 <= MaxTicks * 500
    /\ clock' = clock + 500
    /\ UNCHANGED <<signURL, client, jarCreated, instCreated, serializerFn, calls, pc,
                   args, config, frame, signerArgs, signerCalls,
                   signerResult, sent, outcome, tsLog, cookieJar, header,
                   resp, pending, lastSet, owed>>
    /\ UNCHANGED <<paramVars, decodeVars>>

(***************************************************************************)
(* Initial states and specifications.                                      *)
(***************************************************************************)
RequestsIdle ==
    /\ clock = 0 /\ calls = 0 /\ tsLog = <<>>
    /\ cookieJar = EmptyJar /\ lastSet = EmptyJar
    /\ owed = [h \in Hosts |-> {}]
    /\ pc = [r \in Requests |-> "idle"]
    /\ args = [r \in Requests |-> NoArgs]
    /\ config = [r \in Requests |-> NoConfig]
    /\ frame = [r \in Requests |-> NoFrame]
    /\ signerArgs = [r \in Requests |-> NoSignerArgs]
    /\ signerCalls = [r \in Requests |-> 0]
    /\ signerResult = [r \in Requests |-> NoResult]
    /\ sent = [r \in Requests |-> NotSent]
    /\ outcome = [r \in Requests |-> NoOutcome]
    /\ resp = [r \in Requests |-> <<>>]
    /\ header = [r \in Requests |-> {}]
    /\ pending = [r \in Requests |-> <<>>]

Unconstructed ==
    /\ signURL = None /\ client = "none" /\ jarCreated = FALSE /\ instCreated = FALSE
    /\ serializerFn = FALSE

Constructed ==
    /\ signURL = "function" /\ client = "ready" /\ jarCreated = TRUE /\ instCreated = TRUE
    /\ serializerFn = TRUE

NoSerializerInput ==
    /\ mapA = <<>> /\ mapB = <<>> /\ outA = NoOutput /\ outB = NoOutput

NoDecoderInput ==
    /\ data = [present |-> FALSE, toks |-> <<>>, lit |-> AnyLiteral]
    /\ decoded = NotDecoded

\* What callers pass to listComments.
ListInputs ==
    {<<<<"aweme_id", "p1">>, <<"count", 5>>, <<"comment_style", 1>>,
       <<"aid", "a b">>>>,
     <<<<"aweme_id", "p1">>, <<"ts", 7>>>>}

\* The pipeline from construction to the hand-over to the transport.
Init == Unconstructed /\ RequestsIdle /\ NoSerializerInput /\ NoDecoderInput

NewClient ==
    \E f \in {"function", "undefined"},
       c \in {"none", "paramsSerializer: undefined"} : Construct(f, c)

\* What the program does with a client; the clock runs beside it.
ClientStep ==
    \/ \E r \in Requests : getUser(r, "u1")
    \/ \E r \in Requests, p \in ListInputs : listComments(r, p)
    \/ \E r \in Requests, t \in {clock, clock + 500} : SignBegin(r, t)
    \/ \E r \in Requests : SignResolve(r, "api2.musical.ly")
    \/ \E r \in Requests : SignReject(r, "signer failed")
    \/ \E r \in Requests : Attach(r)

Next == NewClient \/ ClientStep \/ Tick

Spec == Init /\ [][Next]_vars

\* The Set-Cookie headers the response to request n may carry: none, or the
\* first cookie names, each with a value only the responses to n set.
CookieLists(n, len) ==
    LET all == [i \in 1..Len(CookieNames) |-> <<CookieNames[i], n>>]
    IN {SubSeq(all, 1, k) : k \in 0..(IF len < Len(all) THEN len ELSE Len(all))}

\* A constructed client whose responses set cookies.
InitSession == Constructed /\ RequestsIdle /\ NoSerializerInput /\ NoDecoderInput

NextSession ==
    \/ \E r \in Requests : getUser(r, "u1")
    \/ \E r \in Requests : SignBegin(r, clock)
    \/ \E r \in Requests, h \in Hosts : SignResolve(r, h)
    \/ \E r \in Requests : Attach(r)
    \/ \E r \in Requests :
          \E c \in CookieLists(r, MaxSetCookies) : Respond(r, c)
    \/ \E r \in Requests : StoreCookie(r)
    \/ \E r \in Requests : Settle(r)
    \/ \E r \in Requests : Again(r)

SpecSession == InitSession /\ [][NextSession]_vars

\* The serializer alone.
InitSerializer == Constructed /\ RequestsIdle /\ InitParams /\ NoDecoderInput

NextSerializer == SerializeA \/ SerializeB

SpecSerializer == InitSerializer /\ [][NextSerializer]_vars

\* The decoder alone.
InitDecoder == Constructed /\ RequestsIdle /\ NoSerializerInput /\ InitDecode

NextDecoder == Decode

SpecDecoder == InitDecoder /\ [][NextDecoder]_vars


(***************************************************************************)
(* Properties.                                                             *)
(***************************************************************************)
NameSet == {CookieNames[i] : i \in 1..Len(CookieNames)}

\* C1: every request handed to the transport has an empty parameter set and
\* the URL the signer returned for this request's own canonical URL.
C1_SignedUrlAndNoParams ==
    \A r \in Requests :
        sent[r].dispatched =>
            /\ sent[r].params = <<>>
            /\ signerResult[r].kind = "url"
            /\ sent[r].url = signerResult[r].url
            /\ sent[r].url.text = frame[r].url.text
            /\ sent[r].url.token = r
            /\ sent[r].url # frame[r].url

\* Two requests in flight together, signed from different canonical URLs.
C1_Witness ==
    \E r, q \in Requests :
        /\ r # q
        /\ sent[r].dispatched /\ sent[q].dispatched
        /\ frame[r].url.text # frame[q].url.text

\* C2: a request whose signer failed is never handed to the transport, its
\* signer was called once, and the caller gets the signer's failure as is.
C2_SignerFailureAborts ==
    \A r \in Requests :
        signerResult[r].kind = "error" =>
            /\ pc[r] = "failed"
            /\ ~sent[r].dispatched
            /\ signerCalls[r] = 1
            /\ outcome[r] = [kind |-> "error", error |-> signerResult[r].error]

\* One request failed in the signer while another one was dispatched.
C2_Witness ==
    \E r, q \in Requests :
        /\ signerResult[r].kind = "error"
        /\ outcome[r].error = "signer failed"
        /\ sent[q].dispatched

\* C3: a constructor given no signer function throws before the jar and the
\* axios instance exist; nothing is ever called, signed or sent afterwards.
C3_ConfigGate ==
    (signURL # None /\ signURL # "function") =>
        /\ client = "threw"
        /\ ~jarCreated /\ ~instCreated
        /\ calls = 0
        /\ \A r \in Requests :
              pc[r] = "idle" /\ signerCalls[r] = 0 /\ ~sent[r].dispatched
        /\ ~ENABLED (NewClient \/ ClientStep)

\* The constructor has thrown for want of a signer.
C3_Witness == client = "threw" /\ signURL = "undefined"

\* C5: the injected ts values never decrease in the order signing began, and
\* a request's injected ts is both its ts parameter and the signer's
\* timestamp argument, whatever ts the caller passed.
C5_FreshnessMonotone ==
    /\ \A i, j \in 1..Len(tsLog) : i < j => tsLog[i] <= tsLog[j]
    /\ \A r \in Requests :
          frame[r].set =>
              /\ Get(frame[r].params, "ts") = frame[r].ts
              /\ signerArgs[r].ts = frame[r].ts
              /\ \E i \in 1..Len(tsLog) : tsLog[i] = frame[r].ts

\* A later second passed between two signings, one of a call that carried
\* its own ts.
C5_Witness ==
    /\ Len(tsLog) = 2 /\ tsLog[1] < tsLog[2]
    /\ \E r \in Requests : frame[r].set /\ Has(args[r].params, "ts")

PathOf(method) ==
    IF method = "listComments" THEN "aweme/v1/comment/list/" ELSE "aweme/v1/user/"

MethodDefaults(method) ==
    IF method = "listComments"
    THEN Spread(DefaultListParams, ListCommentsDefaults)
    ELSE <<>>

\* The keys of a call with caller params c, method defaults d.
SuppliedKeys(c, d) == KeysOf(c) \cup KeysOf(d) \cup KeysOf(reqParams)

\* The caller's value, else the method's default, else the static default.
ByPrecedence(c, d, k) ==
    IF Has(c, k) THEN Get(c, k)
    ELSE IF Has(d, k) THEN Get(d, k) ELSE Get(reqParams, k)

FreshnessKeys == {"ts", "_rticket"}

\* C6 as stated: for every key, the caller's value wins over the defaults in
\* the parameters that are serialized.
C6_CallerWinsEveryKey ==
    \A r \in Requests :
        frame[r].set =>
            LET c == args[r].params
                d == MethodDefaults(args[r].method)
                p == frame[r].params
            IN \A k \in SuppliedKeys(c, d) :
                  Has(p, k) /\ Get(p, k) = ByPrecedence(c, d, k)

\* C6 amended: for every key but ts and _rticket the caller's value wins over
\* the method's default, which wins over the static default; ts and _rticket
\* hold the injected values; these parameters are what the canonical URL
\* serializes.
C6_CallerWinsButFreshness ==
    \A r \in Requests :
        frame[r].set =>
            LET c == args[r].params
                d == MethodDefaults(args[r].method)
                p == frame[r].params
            IN /\ \A k \in SuppliedKeys(c, d) \ FreshnessKeys :
                     Has(p, k) /\ Get(p, k) = ByPrecedence(c, d, k)
               /\ KeysOf(p) = SuppliedKeys(c, d) \cup FreshnessKeys
               /\ Get(p, "ts") = frame[r].ts
               /\ frame[r].url.text =
                     BaseURL \o PathOf(args[r].method) \o "?"
                         \o paramsSerializer(paramsOrder, p)

\* A listComments call whose own count, comment_style and aid replaced the
\* defaults, next to one that left them alone.
C6_Witness ==
    \E r, q \in Requests :
        /\ frame[r].set /\ frame[q].set
        /\ Has(args[r].params, "count")
        /\ Get(frame[r].params, "count") = 5
        /\ Get(frame[r].params, "comment_style") = 1
        /\ Get(frame[r].params, "aid") = "a b"
        /\ args[q].method = "listComments"
        /\ Get(frame[q].params, "count") = 20

\* C4 as stated: two mappings of the same content serialize to the same
\* string, whatever their insertion orders.
C4_OrderIndependent ==
    (outA.done /\ outB.done /\ SameContent(mapA, mapB)) =>
        outA.text = outB.text

Latest(host) == {<<n, lastSet[<<host, n>>]>> : n \in {m \in NameSet : lastSet[<<host, m>>] # 0}}

Attaching(r) == pc[r] = "signed" /\ pc'[r] = "inflight"

HasNumber == \E i \in 1..Len(data.toks) : data.toks[i] = "NUM"

\* The decoded value of the document's number.
NumberValue ==
    IF decoded.value.kind = "object"
    THEN Get(decoded.value.fields, "id")
    ELSE decoded.value

WellFormed(toks) ==
    \/ toks \in {<<"NUM">>, <<"STR">>, <<"{", "}">>}
    \/ /\ Len(toks) >= 5 /\ Len(toks) % 4 = 1
       /\ toks[1] = "{" /\ toks[Len(toks)] = "}"
       /\ \A i \in 2..(Len(toks) - 1) :
             CASE i % 4 = 2 -> toks[i] = "STR"
               [] i % 4 = 3 -> toks[i] = ":"
               [] i % 4 = 0 -> toks[i] \in {"NUM", "STR"}
               [] OTHER -> toks[i] = ","

\* C10: an absent or empty body comes back unchanged and unparsed; any other
\* body is parsed, and a malformed one is a decode failure.
C10_EmptyPassesMalformedFails ==
    decoded # NotDecoded =>
        IF ~data.present \/ Len(data.toks) = 0
        THEN decoded = [kind |-> "returned", parsed |-> FALSE, value |-> data]
        ELSE /\ decoded.parsed
             /\ decoded.kind = (IF WellFormed(data.toks) THEN "value" ELSE "error")

\* An empty body was returned as it was, unparsed.
C10_Witness ==
    /\ data.present /\ data.toks = <<>>
    /\ decoded.kind = "returned" /\ ~decoded.parsed


====
